---- MODULE Spec2Model ----
(***************************************************************************)
(* Model of the ComfyUI RunPod worker: handler.py (handler,               *)
(* validate_input), comfyui_client.py (ComfyUIClient.execute_workflow,     *)
(* _queue_prompt, _wait_for_completion, _fetch_outputs), storage.py        *)
(* (StorageClient.upload) and workflow_loader.py (WorkflowLoader.load).    *)
(*                                                                         *)
(* One worker handles jobs one at a time.  pc is the position of the       *)
(* handler call inside the code; the render engine, the object store and   *)
(* the clock are the environment.  Time passes only while the client is    *)
(* inside a blocking call (create_connection, ws.recv).  The clock is      *)
(* read relative to the moment the job was accepted.                       *)
(***************************************************************************)
EXTENDS Integers, Sequences, FiniteSets, TLC

\* ---------------------------------------------------------------- bounds
MaxJobs   == 2      \* jobs the worker is offered
MaxEvents == 2      \* frames the render engine emits per job
MaxInFlight == 2    \* frames buffered on the connection, not yet received
MaxImages == 2      \* image entries in one history record
TickStep  == 100    \* seconds by which the clock advances in one step
MaxTime   == 400    \* the clock is not advanced beyond this
MaxConnect == 100   \* longest time create_connection is observed to take

\* ------------------------------------------------------ program constants
EXECUTION_TIMEOUT == 300
\* wait_for_ready: timeout, the timeout of one probe, the pause between probes
ReadyTimeout == 120
ProbeTimeout == 5
ProbeSleep == 2
\* _inject_image_gen: the defaults of width, height and steps
DefaultWidth == 1280
DefaultHeight == 720
DefaultSteps == 25

\* ------------------------------------------------------- values and inputs
None     == "None"          \* Python None / a key that is missing
Empty    == ""              \* the empty string (falsy)
ListVal  == "[list]"        \* a JSON array (truthy, unhashable)
NoId     == <<>>            \* no prompt_id (None)
PromptIdOf(n) == <<n>>      \* the prompt_id the engine assigns to the prompt of job n
OtherPid == <<-1>>          \* a prompt_id that belongs to another prompt
\* str(uuid.uuid4()) as evaluated for the n-th client a job constructs: a
\* value no earlier call returned
uuid4(n) == <<"uuid4", n>>

valid_types == {"image_gen", "face_swap"}

WORKFLOW_MAP == [t \in valid_types |->
                   IF t = "image_gen" THEN "flux_image_gen.json" ELSE "face_swap.json"]

\* job["input"] as sent by the platform.  Fields a workflow type does not
\* read are left out of the request.
JobInputs ==
    {[workflow_type |-> "image_gen", prompt |-> p, source_image |-> None, target_image |-> None] :
        p \in {None, Empty, "a cat"}}
    \cup
    {[workflow_type |-> "face_swap", prompt |-> None, source_image |-> s, target_image |-> t] :
        s \in {None, "https://x/a.jpg"}, t \in {None, "https://x/b.png"}}
    \cup
    {[workflow_type |-> w, prompt |-> "a cat", source_image |-> None, target_image |-> None] :
        w \in {None, Empty, "nonexistent", ListVal}}

\* Python truthiness of a request field
Truthy(v) == v \notin {None, Empty}

\* ------------------------------------------------------------ stream frames
BinaryFrame == [kind |-> "binary", type |-> None, prompt_id |-> NoId, node |-> None,
                node_id |-> None, exception_message |-> None, value |-> 0, max |-> 0]

Executing(pid, node) == [BinaryFrame EXCEPT !.kind = "text", !.type = "executing",
                                            !.prompt_id = pid, !.node = node]
ExecutionErrorEv(pid, nid, m) == [BinaryFrame EXCEPT !.kind = "text", !.type = "execution_error",
                                            !.prompt_id = pid, !.node_id = nid,
                                            !.exception_message = m]
Progress(pid, v, m) == [BinaryFrame EXCEPT !.kind = "text", !.type = "progress",
                                            !.prompt_id = pid, !.value = v, !.max = m]

\* the frames the render engine can push while prompt pid is the job's prompt:
\* one for every way _wait_for_completion treats a frame
Frames(pid) ==
    { BinaryFrame,
      Executing(pid, None), Executing(pid, "7"), Executing(OtherPid, None),
      ExecutionErrorEv(pid, "7", "bad seed"), ExecutionErrorEv(OtherPid, "9", "oom"),
      Progress(pid, 1, 2) }

\* --------------------------------------------------------------- exceptions
Exc(t, m) == [type |-> t, msg |-> m]
NoExc     == Exc(None, <<>>)

\* ------------------------------------------------- handler.py: validate_input
\* Result of the call: either it raises, or it returns (valid, error).
validate_input(job_input) ==
    LET workflow_type == job_input.workflow_type IN
    IF ~Truthy(workflow_type)
      THEN [raised |-> NoExc, valid |-> FALSE,
            error |-> <<"Missing required field: workflow_type">>]
    ELSE IF workflow_type = ListVal
      \* `workflow_type not in valid_types` hashes its left operand
      THEN [raised |-> Exc("TypeError", <<"unhashable type: 'list'">>), valid |-> FALSE,
            error |-> <<>>]
    ELSE IF workflow_type \notin valid_types
      THEN [raised |-> NoExc, valid |-> FALSE,
            error |-> <<"Invalid workflow_type", workflow_type>>]
    ELSE IF workflow_type = "image_gen" /\ ~Truthy(job_input.prompt)
      THEN [raised |-> NoExc, valid |-> FALSE,
            error |-> <<"image_gen requires 'prompt' field">>]
    ELSE IF workflow_type = "face_swap" /\ ~Truthy(job_input.source_image)
      THEN [raised |-> NoExc, valid |-> FALSE,
            error |-> <<"face_swap requires 'source_image' field">>]
    ELSE IF workflow_type = "face_swap" /\ ~Truthy(job_input.target_image)
      THEN [raised |-> NoExc, valid |-> FALSE,
            error |-> <<"face_swap requires 'target_image' field">>]
    ELSE [raised |-> NoExc, valid |-> TRUE, error |-> <<>>]

\* ------------------------------------------------ handler.py: result envelopes
\* keys is the set of keys present in the returned dict.
NoResult == [kind |-> "none", keys |-> {}, status |-> None, error |-> <<>>,
             output_urls |-> <<>>, workflow_type |-> None, job_id |-> 0, exc |-> NoExc]

ErrorEnvelope(error) ==
    [NoResult EXCEPT !.kind = "envelope", !.keys = {"error"}, !.error = error]

SuccessEnvelope(urls, workflow_type, job_id) ==
    [NoResult EXCEPT !.kind = "envelope",
                     !.keys = {"status", "output_urls", "workflow_type", "job_id"},
                     !.status = "success", !.output_urls = urls,
                     !.workflow_type = workflow_type, !.job_id = job_id]

\* the call of handler ends by an exception leaving it
Raised(e) == [NoResult EXCEPT !.kind = "raised", !.exc = e]

\* handler.py: the two except clauses of handler
HandlerExcept(e) ==
    IF e.type = "TimeoutError"
      THEN ErrorEnvelope(<<"Workflow execution timed out">>)
      ELSE ErrorEnvelope(e.msg)

\* ------------------------------- comfyui_client.py: _wait_for_completion
\* loop condition: time.time() - start < EXECUTION_TIMEOUT
WithinDeadline(t, start_t) == t - start_t < EXECUTION_TIMEOUT

\* the branch of the loop body a received frame takes
\* (variant: the prompt_id of the event is not compared)
IsCompletion_AnyPrompt(raw, prompt_id) ==
    /\ raw.kind = "text"
    /\ raw.type = "executing"
    /\ raw.node = None

IsCompletion(raw, prompt_id) ==
    /\ raw.kind = "text"
    /\ raw.type = "executing"
    /\ raw.prompt_id = prompt_id
    /\ raw.node = None

\* (variant: the prompt_id of the event is not compared)
IsExecutionError_AnyPrompt(raw, prompt_id) ==
    /\ raw.kind = "text"
    /\ raw.type = "execution_error"

IsExecutionError(raw, prompt_id) ==
    /\ raw.kind = "text"
    /\ raw.type = "execution_error"
    /\ raw.prompt_id = prompt_id

\* (variant: a matching execution_error is logged and the loop goes on)
Classify_ErrorLogged(raw, prompt_id) ==
    IF raw.kind = "binary" THEN "continue"
    ELSE IF IsCompletion(raw, prompt_id) THEN "complete"
    ELSE "continue"

Classify(raw, prompt_id) ==
    IF raw.kind = "binary" THEN "continue"
    ELSE IF IsCompletion(raw, prompt_id) THEN "complete"
    ELSE IF IsExecutionError(raw, prompt_id) THEN "error"
    ELSE "continue"

\* the RuntimeError raised for a matching execution_error event
\* (variant: the message is built from the defaults, not from the event)
ExecutionErrorExc_Defaults(raw) ==
    Exc("RuntimeError", <<"ComfyUI execution error in node", "unknown", "Unknown error">>)

ExecutionErrorExc(raw) ==
    Exc("RuntimeError",
        <<"ComfyUI execution error in node",
          IF raw.node_id = None THEN "unknown" ELSE raw.node_id,
          IF raw.exception_message = None THEN "Unknown error" ELSE raw.exception_message>>)

TimeoutExc == Exc("TimeoutError", <<"Workflow execution exceeded timeout">>)

\* ------------------------------------- comfyui_client.py: _queue_prompt
\* POST /prompt for the prompt of job n; ok: the response is a success that
\* carries a prompt_id.
\* (variant: resp.raise_for_status() is missing and no prompt_id is required)
queue_prompt_Unchecked(ok, n) ==
    [exc |-> NoExc, prompt_id |-> IF ok THEN PromptIdOf(n) ELSE NoId]

queue_prompt(ok, n) ==
    IF ok THEN [exc |-> NoExc, prompt_id |-> PromptIdOf(n)]
          ELSE [exc |-> Exc("HTTPError", <<"POST /prompt failed">>), prompt_id |-> NoId]

\* ----------------------------------- comfyui_client.py: execute_workflow
\* try: ... finally: ws.close() -- is the connection still open after the
\* call has left the try statement by `how` ("return" or "raise")?
\* (variant: ws.close() follows the call instead of sitting in a finally clause)
OpenAfterExit_NoFinally(how) == how = "raise"

OpenAfterExit(how) == FALSE

\* --------------------------------------------------- handler.py: output key
\* f"outputs/{job_id}/{workflow_type}_{i}.png"
\* (variant: the index is left out of the key)
OutputKey_NoIndex(job_id, workflow_type, i) == <<"outputs", job_id, workflow_type, 0>>

OutputKey(job_id, workflow_type, i) == <<"outputs", job_id, workflow_type, i>>

\* ------------------------------------------- storage.py: StorageClient.upload
\* the presigned URL minted for a key
PresignedUrl(key) == <<"url", key>>

\* One call of upload: what it writes, how many presign requests it makes,
\* and the URL it returns or the exception it raises.  putOk, presignOk: the
\* outcome the store gives to put_object and to generate_presigned_url.
\* (variant: the URL is minted before the object is written)
upload_PresignFirst(data, key, putOk, presignOk) ==
    IF ~presignOk
      THEN [written |-> {}, presigns |-> 1, url |-> <<>>,
            exc |-> Exc("ClientError", <<"generate_presigned_url failed", key>>)]
    ELSE IF ~putOk
      THEN [written |-> {}, presigns |-> 1, url |-> <<>>,
            exc |-> Exc("ClientError", <<"put_object failed", key>>)]
    ELSE [written |-> {[key |-> key, body |-> data]}, presigns |-> 1,
          url |-> PresignedUrl(key), exc |-> NoExc]

upload(data, key, putOk, presignOk) ==
    IF ~putOk
      THEN [written |-> {}, presigns |-> 0, url |-> <<>>,
            exc |-> Exc("ClientError", <<"put_object failed", key>>)]
    ELSE IF ~presignOk
      THEN [written |-> {[key |-> key, body |-> data]}, presigns |-> 1, url |-> <<>>,
            exc |-> Exc("ClientError", <<"generate_presigned_url failed", key>>)]
    ELSE [written |-> {[key |-> key, body |-> data]}, presigns |-> 1,
          url |-> PresignedUrl(key), exc |-> NoExc]

\* the object store after the objects of `written` have been put: a put
\* replaces the object stored under the same key
Put(store, written) ==
    {o \in store : \A w \in written : w.key # o.key} \cup written

\* ------------------------------------ comfyui_client.py: _fetch_outputs
\* The outputs section of a history record: the output nodes in the order
\* the mapping iterates them, each with its list of image entries (empty for
\* a node without "images").
NodeImages(node, n) == [j \in 1..n |-> [node |-> node, filename |-> j]]

Histories ==
    { <<NodeImages("9", ab[1]), NodeImages("12", ab[2])>> :
        ab \in {x \in (0..MaxImages) \X (0..MaxImages) : x[1] + x[2] <= MaxImages} }

\* the image entries in the order the two nested for loops visit them
\* (variant: the nodes are walked last to first)
ImageEntries_NodesReversed(outs) ==
    IF outs = <<>> THEN <<>> ELSE outs[Len(outs)] \o outs[1]

RECURSIVE ImageEntries(_)
ImageEntries(outs) ==
    IF outs = <<>> THEN <<>>
    ELSE Head(outs) \o ImageEntries(Tail(outs))

\* the content GET /view returns for an image entry of the history record
ImageBytes(entry) == <<"bytes", entry>>

\* websocket.create_connection(..., timeout=EXECUTION_TIMEOUT): the timeout
\* of every blocking operation on the socket
SocketTimeout == EXECUTION_TIMEOUT

\* --------------------------------------- comfyui_client.py: wait_for_ready
\* How one GET /system_stats can end: status 200, another status, connection
\* refused, no connection within the timeout, connected but no answer within
\* the timeout.
ProbeOutcomes == {"ok", "status", "refused", "connect_timeout", "read_timeout"}

\* the exception requests.get raises
ProbeExc(o) ==
    CASE o = "refused"         -> Exc("ConnectionError", <<"Connection refused">>)
      [] o = "connect_timeout" -> Exc("ConnectTimeout", <<"connect timeout">>)
      [] o = "read_timeout"    -> Exc("ReadTimeout", <<"Read timed out.">>)
      [] OTHER                 -> NoExc

\* the time the probe takes
ProbeTook(o) == IF o \in {"connect_timeout", "read_timeout"} THEN ProbeTimeout ELSE 0

\* `except requests.ConnectionError`: the classes of requests.exceptions
\* that it matches (ReadTimeout derives from Timeout alone)
IsConnectionError(e) ==
    e.type \in {"ConnectionError", "ConnectTimeout", "ProxyError", "SSLError"}

NoReady == [pc |-> "off", now |-> 0, start |-> 0, kind |-> "none", ret |-> FALSE,
            exc |-> NoExc]

\* --------------------------------- workflow_loader.py: _inject_image_gen
\* The optional fields of an image_gen request.
OptionalFields == {"negative_prompt", "width", "height", "seed", "steps", "cfg_scale"}

\* A seed is a 32-bit value held as its two 16-bit halves <<high, low>>.
\* random.randint(0, 2**32 - 1): the draws considered
SeedDraws == { <<0, 0>>, <<0, 1>>, <<65535, 65535>> }

\* the values a caller supplies, each different from the default
Supplied(prompt) ==
    [prompt |-> prompt, negative_prompt |-> "ugly", width |-> 512, height |-> 768,
     seed |-> <<0, 42>>, steps |-> 20, cfg_scale |-> "3.5"]

\* params: `has` are the keys present, `val` their values
ImageGenParams ==
    { [has |-> {"prompt"} \cup o, val |-> Supplied(p)] :
        o \in SUBSET OptionalFields, p \in {"a cat", "a dog"} }

\* params.get(k, d)
Get(params, k, d) == IF k \in params.has THEN params.val[k] ELSE d

\* workflows/image_gen.json: the text-encode nodes "3" and "4", the
\* latent-size node "5" and the sampler node "6"
ImageGenTemplate ==
    ("3" :> [class_type |-> "CLIPTextEncode", inputs |-> [text |-> ""]]) @@
    ("4" :> [class_type |-> "CLIPTextEncode", inputs |-> [text |-> ""]]) @@
    ("5" :> [class_type |-> "EmptyLatentImage",
             inputs |-> [width |-> 0, height |-> 0, batch_size |-> 0]]) @@
    ("6" :> [class_type |-> "KSampler",
             inputs |-> [seed |-> <<0, 0>>, steps |-> 0, cfg |-> ""]])

\* the injection into the nodes the template has
InjectNodes(workflow, prompt, negative, width, height, seed, steps, cfg_scale) ==
    LET w3 == IF "3" \in DOMAIN workflow
                THEN [workflow EXCEPT !["3"].inputs.text = prompt] ELSE workflow
        w4 == IF "4" \in DOMAIN w3
                THEN [w3 EXCEPT !["4"].inputs.text = negative] ELSE w3
        w5 == IF "5" \in DOMAIN w4
                THEN [w4 EXCEPT !["5"].inputs.width = width,
                                !["5"].inputs.height = height,
                                !["5"].inputs.batch_size = 1] ELSE w4
        w6 == IF "6" \in DOMAIN w5
                THEN [w5 EXCEPT !["6"].inputs.seed = seed,
                                !["6"].inputs.steps = steps,
                                !["6"].inputs.cfg = cfg_scale] ELSE w5
    IN w6

\* (variant: width is read as params["width"])
inject_image_gen_WidthRequired(workflow, params, r) ==
    IF "prompt" \notin params.has
      THEN [exc |-> Exc("KeyError", <<"prompt">>), workflow |-> workflow]
    ELSE IF "width" \notin params.has
      THEN [exc |-> Exc("KeyError", <<"width">>), workflow |-> workflow]
    ELSE [exc |-> NoExc,
          workflow |-> InjectNodes(workflow, params.val.prompt,
                          Get(params, "negative_prompt", "blurry, low quality, watermark, text"),
                          params.val.width,
                          Get(params, "height", DefaultHeight),
                          Get(params, "seed", r),
                          Get(params, "steps", DefaultSteps),
                          Get(params, "cfg_scale", "7.5"))]

inject_image_gen(workflow, params, r) ==
    IF "prompt" \notin params.has
      THEN [exc |-> Exc("KeyError", <<"prompt">>), workflow |-> workflow]
    ELSE [exc |-> NoExc,
          workflow |-> InjectNodes(workflow, params.val.prompt,
                          Get(params, "negative_prompt", "blurry, low quality, watermark, text"),
                          Get(params, "width", DefaultWidth),
                          Get(params, "height", DefaultHeight),
                          Get(params, "seed", r),
                          Get(params, "steps", DefaultSteps),
                          Get(params, "cfg_scale", "7.5"))]

NoGen == [pc |-> "off", params |-> [has |-> {}, val |-> Supplied("")],
          workflow |-> <<>>, exc |-> NoExc]

\* ==================================================================== state
VARIABLES
    pc,            \* position of the handler call, "idle" between jobs
    jobNo,         \* jobs accepted so far; the current job's id
    job,           \* job["input"] of the current job
    result,        \* how the last call of handler ended
    now,           \* the clock
    start,         \* _wait_for_completion: start
    recvStart,     \* the time the pending ws.recv() was entered (0 while none is pending)
    prompt_id,     \* execute_workflow: prompt_id
    wsOpen,        \* the connection `ws` exists and is not closed
    stream,        \* frames the engine sent on the connection, in order
    rcvd,          \* how many of them ws.recv() has returned
    lost,          \* the frames the engine emitted while no connection existed
    outputs,       \* _fetch_outputs: outputs, the output nodes of the history record
    images,        \* _fetch_outputs: images
    output_images, \* handler: output_images (<<>> while unassigned)
    urls,          \* handler: urls
    dl,            \* _inject_face_swap: reference images downloaded
    objects,       \* the objects of the current job in the object store
    runResult,     \* how execute_workflow ended for the current job
    fx,            \* requests made for the current job, per collaborator
    client_id,     \* self.client_id of the ComfyUIClient handler constructed last
    ready,         \* the call of wait_for_ready made by start_comfyui
    gen            \* the call of WorkflowLoader.load for an image_gen request

vars == <<pc, jobNo, job, result, now, start, recvStart, prompt_id, wsOpen,
          stream, rcvd, lost, outputs, images, output_images, urls, dl, objects,
          runResult, fx, client_id, ready, gen>>

\* the variables of the job handler
jobvars == <<pc, jobNo, job, result, now, start, recvStart, prompt_id, wsOpen,
             stream, rcvd, lost, outputs, images, output_images, urls, dl, objects,
             runResult, fx, client_id>>

NoJob == [workflow_type |-> None, prompt |-> None, source_image |-> None,
          target_image |-> None]

NoFx == [loads |-> 0, downloads |-> 0, submits |-> 0, opens |-> 0, closes |-> 0,
         history |-> 0, views |-> 0, puts |-> 0, presigns |-> 0]

NoRun == [kind |-> "none", exc |-> NoExc, images |-> <<>>]

JobInit ==
    /\ pc = "idle"
    /\ jobNo = 0
    /\ job = NoJob
    /\ result = NoResult
    /\ now = 0
    /\ start = 0
    /\ recvStart = 0
    /\ prompt_id = NoId
    /\ wsOpen = FALSE
    /\ stream = <<>>
    /\ rcvd = 0
    /\ lost = {}
    /\ outputs = <<>>
    /\ images = <<>>
    /\ output_images = <<>>
    /\ urls = <<>>
    /\ dl = 0
    /\ objects = {}
    /\ runResult = NoRun
    /\ fx = NoFx
    /\ client_id = NoId

Init ==
    /\ JobInit
    /\ ready = NoReady
    /\ gen = NoGen

\* ------------------------------------------------------------------ helpers
\* An exception e leaves the try block of handler.  inRun: it was raised
\* inside execute_workflow.  If the connection exists the exception passes
\* the finally clause of execute_workflow on its way.
\* (variant: a failure on the stream makes the job start over at the submission)
Fails_Resubmit(e, inRun, fx1) ==
    /\ wsOpen' = (wsOpen /\ OpenAfterExit("raise"))
    /\ fx' = IF wsOpen /\ ~OpenAfterExit("raise")
               THEN [fx1 EXCEPT !.closes = @ + 1] ELSE fx1
    /\ IF inRun /\ e.type \in {"WebSocketConnectionClosedException", "RuntimeError"}
         THEN /\ pc' = "submit"
              /\ UNCHANGED <<result, runResult>>
         ELSE /\ result' = HandlerExcept(e)
              /\ pc' = "idle"
              /\ runResult' = IF inRun THEN [kind |-> "raised", exc |-> e, images |-> <<>>]
                                        ELSE runResult

Fails(e, inRun, fx1) ==
    /\ result' = HandlerExcept(e)
    /\ pc' = "idle"
    /\ wsOpen' = (wsOpen /\ OpenAfterExit("raise"))
    /\ fx' = IF wsOpen /\ ~OpenAfterExit("raise")
               THEN [fx1 EXCEPT !.closes = @ + 1] ELSE fx1
    /\ runResult' = IF inRun THEN [kind |-> "raised", exc |-> e, images |-> <<>>]
                              ELSE runResult

\* execute_workflow returns imgs to handler, which tests `not output_images`
\* (variant: handler does not test; the upload loop runs over nothing)
Returns_NoEmptyTest(imgs, fx1) ==
    /\ wsOpen' = (wsOpen /\ OpenAfterExit("return"))
    /\ fx' = IF wsOpen /\ ~OpenAfterExit("return")
               THEN [fx1 EXCEPT !.closes = @ + 1] ELSE fx1
    /\ runResult' = [kind |-> "returned", exc |-> NoExc, images |-> imgs]
    /\ IF imgs = <<>>
         THEN /\ result' = SuccessEnvelope(<<>>, job.workflow_type, jobNo)
              /\ pc' = "idle"
              /\ UNCHANGED output_images
         ELSE /\ output_images' = imgs
              /\ pc' = "storage"
              /\ UNCHANGED result

Returns(imgs, fx1) ==
    /\ wsOpen' = (wsOpen /\ OpenAfterExit("return"))
    /\ fx' = IF wsOpen /\ ~OpenAfterExit("return")
               THEN [fx1 EXCEPT !.closes = @ + 1] ELSE fx1
    /\ runResult' = [kind |-> "returned", exc |-> NoExc, images |-> imgs]
    /\ IF imgs = <<>>
         THEN /\ result' = ErrorEnvelope(<<"Workflow produced no output images">>)
              /\ pc' = "idle"
              /\ UNCHANGED output_images
         ELSE /\ output_images' = imgs
              /\ pc' = "storage"
              /\ UNCHANGED result

\* ================================================================== actions
\* handler(job) is entered: lines up to the try statement
Accept(job_input) ==
    /\ pc = "idle"
    /\ jobNo < MaxJobs
    /\ jobNo' = jobNo + 1
    /\ job' = job_input
    /\ now' = 0 /\ start' = 0 /\ recvStart' = 0
    /\ prompt_id' = NoId
    /\ wsOpen' = FALSE
    /\ stream' = <<>> /\ rcvd' = 0 /\ lost' = {}
    /\ outputs' = <<>> /\ images' = <<>> /\ output_images' = <<>> /\ urls' = <<>>
    /\ dl' = 0
    /\ runResult' = NoRun
    /\ fx' = NoFx
    /\ objects' = {}
    /\ LET v == validate_input(job_input) IN
         IF v.raised # NoExc
           THEN result' = Raised(v.raised) /\ pc' = "idle"
         ELSE IF ~v.valid
           THEN result' = ErrorEnvelope(v.error) /\ pc' = "idle"
         ELSE result' = NoResult /\ pc' = "load"
    /\ UNCHANGED <<client_id, ready, gen>>

\* WorkflowLoader.load: the template file is read
LoadTemplate(exists) ==
    /\ pc = "load"
    /\ LET fx1 == [fx EXCEPT !.loads = @ + 1] IN
         IF job.workflow_type \notin DOMAIN WORKFLOW_MAP
           THEN Fails(Exc("ValueError", <<"Unknown workflow type", job.workflow_type>>),
                      FALSE, fx1)
         ELSE IF ~exists
           THEN Fails(Exc("FileNotFoundError",
                          <<"Workflow template not found", WORKFLOW_MAP[job.workflow_type]>>),
                      FALSE, fx1)
         ELSE /\ pc' = IF job.workflow_type = "face_swap" THEN "download" ELSE "submit"
              /\ fx' = fx1
              /\ UNCHANGED <<result, wsOpen, runResult>>
    /\ UNCHANGED <<jobNo, job, now, start, recvStart, prompt_id, stream, rcvd,
                   lost, outputs, images, output_images, urls, dl, objects>>
    /\ UNCHANGED <<client_id, ready, gen>>

\* WorkflowLoader._download_image, called for source then target
DownloadImage(ok) ==
    /\ pc = "download"
    /\ LET fx1 == [fx EXCEPT !.downloads = @ + 1] IN
         IF ~ok
           THEN /\ Fails(Exc("HTTPError", <<"reference image download failed">>), FALSE, fx1)
                /\ UNCHANGED dl
           ELSE /\ dl' = dl + 1
                /\ pc' = IF dl' = 2 THEN "submit" ELSE "download"
                /\ fx' = fx1
                /\ UNCHANGED <<result, wsOpen, runResult>>
    /\ UNCHANGED <<jobNo, job, now, start, recvStart, prompt_id, stream, rcvd,
                   lost, outputs, images, output_images, urls, objects>>
    /\ UNCHANGED <<client_id, ready, gen>>

\* handler: client = ComfyUIClient(port=COMFYUI_PORT), whose __init__ draws a
\* client_id; then execute_workflow: _queue_prompt posts it with the graph
QueuePrompt(ok) ==
    /\ pc = "submit"
    /\ LET fx1 == [fx EXCEPT !.submits = @ + 1]
           r   == queue_prompt(ok, jobNo) IN
         IF r.exc # NoExc
           THEN /\ Fails(r.exc, TRUE, fx1)
                /\ UNCHANGED prompt_id
           ELSE /\ prompt_id' = r.prompt_id
                /\ pc' = "connect"
                /\ fx' = fx1
                /\ UNCHANGED <<result, wsOpen, runResult>>
    /\ UNCHANGED <<jobNo, job, now, start, recvStart, stream, rcvd, lost, outputs, images,
                   output_images, urls, dl, objects>>
    /\ client_id' = uuid4(jobNo)
    /\ UNCHANGED <<ready, gen>>

\* execute_workflow: websocket.create_connection, then _wait_for_completion
\* is entered and reads the clock into start
OpenStream(ok) ==
    /\ pc = "connect"
    /\ IF ~ok
         THEN /\ Fails(Exc("WebSocketException", <<"connection failed">>), TRUE, fx)
              /\ UNCHANGED start
         ELSE /\ wsOpen' = TRUE
              /\ fx' = [fx EXCEPT !.opens = @ + 1]
              /\ start' = now
              /\ pc' = "loop"
              /\ UNCHANGED <<result, runResult>>
    /\ UNCHANGED <<jobNo, job, now, recvStart, prompt_id, stream, rcvd, lost,
                   outputs, images, output_images, urls, dl, objects>>
    /\ UNCHANGED <<client_id, ready, gen>>

\* _wait_for_completion: the while condition
LoopCheck ==
    /\ pc = "loop"
    /\ IF WithinDeadline(now, start)
         THEN /\ pc' = "recv"
              /\ recvStart' = now
              /\ UNCHANGED <<result, wsOpen, runResult, fx>>
         ELSE /\ Fails(TimeoutExc, TRUE, fx)
              /\ UNCHANGED recvStart
    /\ UNCHANGED <<jobNo, job, now, start, prompt_id, stream, rcvd, lost,
                   outputs, images, output_images, urls, dl, objects>>
    /\ UNCHANGED <<client_id, ready, gen>>

\* _wait_for_completion: ws.recv() returns a frame and the loop body runs
Recv ==
    /\ pc = "recv"
    /\ recvStart' = 0
    /\ rcvd < Len(stream)
    /\ rcvd' = rcvd + 1
    /\ LET raw == stream[rcvd + 1]
           c   == Classify(raw, prompt_id) IN
         IF c = "error"
           THEN Fails(ExecutionErrorExc(raw), TRUE, fx)
           ELSE /\ pc' = IF c = "complete" THEN "history" ELSE "loop"
                /\ UNCHANGED <<result, wsOpen, runResult, fx>>
    /\ UNCHANGED <<jobNo, job, now, start, prompt_id, stream, lost,
                   outputs, images, output_images, urls, dl, objects>>
    /\ UNCHANGED <<client_id, ready, gen>>

\* ws.recv() blocks for the socket timeout without a frame arriving
RecvTimeout ==
    /\ pc = "recv"
    /\ recvStart' = 0
    /\ rcvd = Len(stream)
    /\ now - recvStart >= SocketTimeout
    /\ Fails(Exc("WebSocketTimeoutException", <<"Connection timed out">>), TRUE, fx)
    /\ UNCHANGED <<jobNo, job, now, start, prompt_id, stream, rcvd,
                   lost, outputs, images, output_images, urls, dl, objects>>
    /\ UNCHANGED <<client_id, ready, gen>>

\* ws.recv() fails: the connection was lost
RecvFail ==
    /\ pc = "recv"
    /\ recvStart' = 0
    /\ rcvd = Len(stream)
    /\ Fails(Exc("WebSocketConnectionClosedException", <<"Connection to remote host was lost.">>),
             TRUE, fx)
    /\ UNCHANGED <<jobNo, job, now, start, prompt_id, stream, rcvd,
                   lost, outputs, images, output_images, urls, dl, objects>>
    /\ UNCHANGED <<client_id, ready, gen>>

\* _fetch_outputs: GET /history/{prompt_id} answers with the record h
FetchHistory(ok, h) ==
    /\ pc = "history"
    /\ LET fx1 == [fx EXCEPT !.history = @ + 1] IN
         IF ~ok
           THEN /\ Fails(Exc("HTTPError", <<"GET /history failed">>), TRUE, fx1)
                /\ UNCHANGED <<outputs, images, output_images>>
           ELSE /\ outputs' = h
                /\ images' = <<>>
                /\ IF ImageEntries(h) = <<>>
                     THEN Returns(<<>>, fx1)
                     ELSE /\ pc' = "view"
                          /\ fx' = fx1
                          /\ UNCHANGED <<result, wsOpen, runResult, output_images>>
    /\ UNCHANGED <<jobNo, job, now, start, recvStart, prompt_id, stream, rcvd,
                   lost, urls, dl, objects>>
    /\ UNCHANGED <<client_id, ready, gen>>

\* (variant: a failed retrieval ends the loop and what was retrieved so far
\* is returned)
ViewImage_PartialOnFailure(ok) ==
    /\ pc = "view"
    /\ LET fx1 == [fx EXCEPT !.views = @ + 1] IN
         IF ~ok
           THEN /\ Returns(images, fx1)
                /\ UNCHANGED images
           ELSE /\ images' = Append(images, ImageBytes(ImageEntries(outputs)[Len(images) + 1]))
                /\ IF Len(images') = Len(ImageEntries(outputs))
                     THEN Returns(images', fx1)
                     ELSE /\ pc' = "view"
                          /\ fx' = fx1
                          /\ UNCHANGED <<result, wsOpen, runResult, output_images>>
    /\ UNCHANGED <<jobNo, job, now, start, recvStart, prompt_id, stream, rcvd,
                   lost, outputs, urls, dl, objects>>
    /\ UNCHANGED <<client_id, ready, gen>>

\* _fetch_outputs: GET /view for the next image entry
ViewImage(ok) ==
    /\ pc = "view"
    /\ LET fx1 == [fx EXCEPT !.views = @ + 1] IN
         IF ~ok
           THEN /\ Fails(Exc("HTTPError", <<"GET /view failed">>), TRUE, fx1)
                /\ UNCHANGED <<images, output_images>>
           ELSE /\ images' = Append(images, ImageBytes(ImageEntries(outputs)[Len(images) + 1]))
                /\ IF Len(images') = Len(ImageEntries(outputs))
                     THEN Returns(images', fx1)
                     ELSE /\ pc' = "view"
                          /\ fx' = fx1
                          /\ UNCHANGED <<result, wsOpen, runResult, output_images>>
    /\ UNCHANGED <<jobNo, job, now, start, recvStart, prompt_id, stream, rcvd,
                   lost, outputs, urls, dl, objects>>
    /\ UNCHANGED <<client_id, ready, gen>>

\* handler: storage = StorageClient(); urls = []
StorageInit(ok) ==
    /\ pc = "storage"
    /\ IF ~ok
         THEN Fails(Exc("KeyError", <<"S3_BUCKET">>), FALSE, fx)
         ELSE /\ pc' = "upload"
              /\ UNCHANGED <<result, wsOpen, runResult, fx>>
    /\ UNCHANGED <<jobNo, job, now, start, recvStart, prompt_id, stream, rcvd,
                   lost, outputs, images, output_images, urls, dl, objects>>
    /\ UNCHANGED <<client_id, ready, gen>>

\* (variant: when an upload fails the objects of the job are deleted again)
Upload_Rollback(putOk, presignOk) ==
    /\ pc = "upload"
    /\ LET i   == Len(urls)
           key == OutputKey(jobNo, job.workflow_type, i)
           r   == upload(output_images[i + 1], key, putOk, presignOk)
           fx1 == [fx EXCEPT !.puts = @ + 1, !.presigns = @ + r.presigns] IN
         /\ objects' = IF r.exc # NoExc THEN {} ELSE Put(objects, r.written)
         /\ IF r.exc # NoExc
              THEN /\ Fails(r.exc, FALSE, fx1)
                   /\ UNCHANGED urls
              ELSE /\ urls' = Append(urls, r.url)
                   /\ fx' = fx1
                   /\ IF Len(urls') = Len(output_images)
                        THEN /\ result' = SuccessEnvelope(urls', job.workflow_type, jobNo)
                             /\ pc' = "idle"
                        ELSE /\ pc' = "upload"
                             /\ UNCHANGED result
                   /\ UNCHANGED <<wsOpen, runResult>>
    /\ UNCHANGED <<jobNo, job, now, start, recvStart, prompt_id, stream, rcvd,
                   lost, outputs, images, output_images, dl>>
    /\ UNCHANGED <<client_id, ready, gen>>

\* handler: one iteration of the upload loop, StorageClient.upload included
Upload(putOk, presignOk) ==
    /\ pc = "upload"
    /\ LET i   == Len(urls)
           key == OutputKey(jobNo, job.workflow_type, i)
           r   == upload(output_images[i + 1], key, putOk, presignOk)
           fx1 == [fx EXCEPT !.puts = @ + 1, !.presigns = @ + r.presigns] IN
         /\ objects' = Put(objects, r.written)
         /\ IF r.exc # NoExc
              THEN /\ Fails(r.exc, FALSE, fx1)
                   /\ UNCHANGED urls
              ELSE /\ urls' = Append(urls, r.url)
                   /\ fx' = fx1
                   /\ IF Len(urls') = Len(output_images)
                        THEN /\ result' = SuccessEnvelope(urls', job.workflow_type, jobNo)
                             /\ pc' = "idle"
                        ELSE /\ pc' = "upload"
                             /\ UNCHANGED result
                   /\ UNCHANGED <<wsOpen, runResult>>
    /\ UNCHANGED <<jobNo, job, now, start, recvStart, prompt_id, stream, rcvd,
                   lost, outputs, images, output_images, dl>>
    /\ UNCHANGED <<client_id, ready, gen>>

\* ------------------------------------------------------------- environment
\* the pending ws.recv() has used up its socket timeout
RecvExpired == pc = "recv" /\ rcvd = Len(stream) /\ now - recvStart >= SocketTimeout

\* The render engine pushes a frame to the client of the queued prompt.  A
\* frame pushed before the connection exists reaches nobody.
EngineEmit(f) ==
    /\ pc \in {"connect", "loop", "recv"}
    /\ ~RecvExpired
    /\ Len(stream) + Cardinality(lost) < MaxEvents
    /\ IF wsOpen
         THEN /\ Len(stream) - rcvd < MaxInFlight
              /\ stream' = Append(stream, f)
              /\ UNCHANGED lost
         ELSE /\ f \notin lost
              /\ lost' = lost \cup {f}
              /\ UNCHANGED stream
    /\ UNCHANGED <<pc, jobNo, job, result, now, start, recvStart, prompt_id,
                   wsOpen, rcvd, outputs, images, output_images, urls, dl, objects,
                   runResult, fx>>
    /\ UNCHANGED <<client_id, ready, gen>>

\* Time passes while the client is blocked in create_connection or in
\* ws.recv() with nothing to read.
Tick ==
    /\ \/ pc = "connect" /\ now + TickStep <= MaxConnect
       \/ pc = "recv" /\ rcvd = Len(stream) /\ ~RecvExpired
    /\ now + TickStep <= MaxTime
    /\ now' = now + TickStep
    /\ UNCHANGED <<pc, jobNo, job, result, start, recvStart, prompt_id, wsOpen,
                   stream, rcvd, lost, outputs, images, output_images, urls, dl, objects,
                   runResult, fx>>
    /\ UNCHANGED <<client_id, ready, gen>>

Next ==
    \/ \E ji \in JobInputs : Accept(ji)
    \/ \E e \in BOOLEAN : LoadTemplate(e)
    \/ \E ok \in BOOLEAN : DownloadImage(ok)
    \/ \E ok \in BOOLEAN : QueuePrompt(ok)
    \/ \E ok \in BOOLEAN : OpenStream(ok)
    \/ LoopCheck
    \/ Recv
    \/ RecvTimeout
    \/ RecvFail
    \/ \E ok \in BOOLEAN, h \in Histories : FetchHistory(ok, h)
    \/ \E ok \in BOOLEAN : ViewImage(ok)
    \/ \E ok \in BOOLEAN : StorageInit(ok)
    \/ \E p \in BOOLEAN, q \in BOOLEAN : Upload(p, q)
    \/ \E f \in Frames(prompt_id) : EngineEmit(f)
    \/ Tick

Spec == Init /\ [][Next]_vars

\* ============================================ start-up: wait_for_ready
\* start_comfyui has launched the engine and calls wait_for_ready
InitReady ==
    /\ JobInit
    /\ gen = NoGen
    /\ ready = [NoReady EXCEPT !.pc = "loop"]

\* wait_for_ready: the while condition
ReadyLoop ==
    /\ ready.pc = "loop"
    /\ ready' = IF ready.now - ready.start < ReadyTimeout
                  THEN [ready EXCEPT !.pc = "probe"]
                  ELSE [ready EXCEPT !.pc = "done", !.kind = "returned", !.ret = FALSE]
    /\ UNCHANGED <<jobvars, gen>>

\* wait_for_ready: one probe, ending as o
ReadyProbe(o) ==
    /\ ready.pc = "probe"
    /\ LET e  == ProbeExc(o)
           r1 == [ready EXCEPT !.now = @ + ProbeTook(o)] IN
         ready' = IF e # NoExc
                    THEN IF IsConnectionError(e)
                           THEN [r1 EXCEPT !.pc = "sleep"]
                           ELSE [r1 EXCEPT !.pc = "done", !.kind = "raised", !.exc = e]
                  ELSE IF o = "ok"
                    THEN [r1 EXCEPT !.pc = "done", !.kind = "returned", !.ret = TRUE]
                  ELSE [r1 EXCEPT !.pc = "sleep"]
    /\ UNCHANGED <<jobvars, gen>>

\* wait_for_ready: time.sleep(2)
ReadySleep ==
    /\ ready.pc = "sleep"
    /\ ready' = [ready EXCEPT !.pc = "loop", !.now = @ + ProbeSleep]
    /\ UNCHANGED <<jobvars, gen>>

NextReady ==
    \/ ReadyLoop
    \/ \E o \in ProbeOutcomes : ReadyProbe(o)
    \/ ReadySleep

SpecReady == InitReady /\ [][NextReady]_vars

\* ================================== WorkflowLoader.load for image_gen
\* load is called with a valid image_gen request
InitGen ==
    /\ JobInit
    /\ ready = NoReady
    /\ \E p \in ImageGenParams : gen = [NoGen EXCEPT !.pc = "load", !.params = p]

\* load: the template is read
GenLoad ==
    /\ gen.pc = "load"
    /\ gen' = [gen EXCEPT !.pc = "inject", !.workflow = ImageGenTemplate]
    /\ UNCHANGED <<jobvars, ready>>

\* load: _inject_image_gen, r being the seed random.randint draws
GenInject(r) ==
    /\ gen.pc = "inject"
    /\ LET res == inject_image_gen(gen.workflow, gen.params, r) IN
         gen' = [gen EXCEPT !.pc = "done", !.workflow = res.workflow, !.exc = res.exc]
    /\ UNCHANGED <<jobvars, ready>>

NextGen ==
    \/ GenLoad
    \/ \E r \in SeedDraws : GenInject(r)

SpecGen == InitGen /\ [][NextGen]_vars

\* =================================================================== claims
\* execute_workflow has ended for the current job
RunEnded == runResult.kind # "none"

\* the run ended because the transport failed, not because of what it carried
TransportFailed ==
    runResult.exc.type \in {"WebSocketException", "WebSocketConnectionClosedException"}

\* C1: the history record is fetched and artifacts are handed on only after
\* an executing event with this job's prompt_id and no node has been
\* received; a run that ends by an exception hands on no artifact: handler
\* holds no output image, writes nothing and returns no URL.
C1_OutputsOnlyAfterCompletion ==
    /\ (fx.history > 0 \/ fx.views > 0 \/ runResult.kind = "returned" \/ output_images # <<>>)
          => \E i \in 1..rcvd : stream[i] = Executing(prompt_id, None)
    /\ runResult.kind = "raised"
          => /\ output_images = <<>>
             /\ fx.puts = 0
             /\ objects = {}
             /\ "output_urls" \notin result.keys

C1_Witness ==
    /\ runResult.kind = "returned"
    /\ Len(output_images) = 2
    /\ rcvd = 2

\* C2: if the engine answers the submission by emitting the terminal success
\* event for the submitted prompt_id (and nothing else), then, whenever that
\* happens relative to the opening of the stream, the run does not end by a
\* timeout and reaches the history fetch.
C2_ImmediateCompletionIsSeen ==
    (/\ RunEnded
     /\ \/ lost = {Executing(prompt_id, None)} /\ stream = <<>>
        \/ lost = {} /\ stream = <<Executing(prompt_id, None)>>
     /\ ~TransportFailed)
        => /\ fx.history >= 1
           /\ runResult.exc.type \notin {"TimeoutError", "WebSocketTimeoutException"}

\* C3: when the stream carried only Progress events of this job and the run
\* has ended, it ended by the TimeoutError of the execution deadline, never
\* by a return.
C3_ProgressOnlyTimesOut ==
    (/\ RunEnded
     /\ lost = {}
     /\ stream # <<>>
     /\ \A i \in 1..Len(stream) :
            stream[i].type = "progress" /\ stream[i].prompt_id = prompt_id
     /\ ~TransportFailed)
        => /\ runResult.kind = "raised"
           /\ runResult.exc.type = "TimeoutError"

\* C4: a step that receives an execution_error event with this job's
\* prompt_id ends the run by a failure that carries the event's node
\* identifier and message, and fetches no history record.
C4_ErrorEventFailsRun ==
    [][ (/\ pc = "recv"
         /\ rcvd' = rcvd + 1
         /\ stream[rcvd + 1].type = "execution_error"
         /\ stream[rcvd + 1].prompt_id = prompt_id)
          => /\ runResult'.kind = "raised"
             /\ runResult'.exc.type = "RuntimeError"
             /\ runResult'.exc.msg[2] = stream[rcvd + 1].node_id
             /\ runResult'.exc.msg[3] = stream[rcvd + 1].exception_message
             /\ fx'.history = 0
             /\ fx'.views = 0
             /\ pc' = "idle" ]_vars

C4_Witness ==
    /\ runResult.kind = "raised"
    /\ runResult.exc.msg = <<"ComfyUI execution error in node", "7", "bad seed">>
    /\ rcvd >= 1
    /\ stream[rcvd] = ExecutionErrorEv(prompt_id, "7", "bad seed")

\* C5: the execution timeout is hard: the run goes on to the history fetch,
\* and returns, only for a terminal success event received no later than
\* the deadline of EXECUTION_TIMEOUT seconds after the stream was opened.
\* (The clock stands still between the receipt of the event and the return.)
C5_HardDeadline ==
    (pc \in {"history", "view"} \/ runResult.kind = "returned")
        => now - start <= EXECUTION_TIMEOUT

\* a frame that is none of this job's events
Foreign(f) ==
    \/ f.kind = "binary"
    \/ f.type \notin {"executing", "execution_error", "progress"}
    \/ f.prompt_id # prompt_id

C7_StreamClosedOnExit ==
    /\ fx.opens <= 1
    /\ fx.closes <= fx.opens
    /\ pc = "connect" => ~wsOpen /\ fx.opens = 0
    /\ wsOpen => fx.opens = 1 /\ fx.closes = 0
    /\ (pc = "idle" \/ RunEnded) => ~wsOpen /\ fx.closes = fx.opens

C7_Witness ==
    /\ pc = "idle"
    /\ fx.opens = 1
    /\ fx.closes = 1
    /\ runResult.exc.type = "HTTPError"
    /\ fx.views = 2

\* the request fails validation as the interface describes it
FailsValidation(j) ==
    \/ j.workflow_type \notin {"image_gen", "face_swap"}
    \/ j.workflow_type = "image_gen" /\ j.prompt = None
    \/ j.workflow_type = "face_swap" /\ (j.source_image = None \/ j.target_image = None)

\* C8: for a request that fails validation handler returns an error
\* envelope and has made no request to any collaborator: no template load,
\* no download, no submission, no connection, no storage write.
C8_InvalidRequestNoSideEffect ==
    (pc = "idle" /\ jobNo > 0 /\ FailsValidation(job))
        => /\ result.kind = "envelope"
           /\ "error" \in result.keys
           /\ fx = NoFx
           /\ objects = {}
           /\ ~wsOpen

\* However a call of handler ends for a request that fails validation, it
\* has made no request to any collaborator.
RejectedLeavesNoTrace ==
    (pc = "idle" /\ jobNo > 0 /\ FailsValidation(job))
        => fx = NoFx /\ objects = {} /\ ~wsOpen /\ runResult = NoRun

\* C9: an envelope handler returns on a failure path has status equal to
\* error together with an error message.
C9_FailureEnvelopeHasStatus ==
    (pc = "idle" /\ result.kind = "envelope" /\ result.status # "success")
        => /\ "status" \in result.keys
           /\ result.status = "error"
           /\ "error" \in result.keys
           /\ result.error # <<>>

\* C10: every call of handler ends by returning an envelope, never by an
\* exception leaving handler.
C10_HandlerNeverRaises ==
    (pc = "idle" /\ jobNo > 0) => result.kind = "envelope"

\* no frame received so far is a terminal event of this job
NoTerminalReceived ==
    \A i \in 1..rcvd :
        /\ stream[i] # Executing(prompt_id, None)
        /\ ~(stream[i].type = "execution_error" /\ stream[i].prompt_id = prompt_id)

\* C11: when the run has ended with the execution deadline exceeded and no
\* terminal event received, the stream having stayed up, handler returns
\* the message "Workflow execution timed out", whether frames kept arriving
\* or the stream fell silent.
C11_TimeoutMessage ==
    (/\ pc = "idle"
     /\ runResult.kind = "raised"
     /\ fx.opens = 1
     /\ now - start >= EXECUTION_TIMEOUT
     /\ NoTerminalReceived
     /\ ~TransportFailed)
        => /\ result.kind = "envelope"
           /\ result.error = <<"Workflow execution timed out">>

\* the image entries of the fetched history record, by the record alone
EntryCount == IF outputs = <<>> THEN 0 ELSE Len(outputs[1]) + Len(outputs[2])

\* C12: when the run returned for a history record without any image
\* entry, handler has returned the envelope with the message "Workflow
\* produced no output images" and nothing was written to the store.
C12_EmptyOutputEnvelope ==
    (runResult.kind = "returned" /\ EntryCount = 0)
        => /\ pc = "idle"
           /\ result.kind = "envelope"
           /\ result.keys = {"error"}
           /\ result.error = <<"Workflow produced no output images">>
           /\ fx.puts = 0 /\ fx.presigns = 0
           /\ objects = {}

C12_Witness ==
    /\ runResult.kind = "returned"
    /\ fx.history = 1
    /\ outputs = << <<>>, <<>> >>
    /\ pc = "idle"
    /\ result.error = <<"Workflow produced no output images">>

\* every URL of the sequence us was minted for a key that is in the store
MintedForStored(us) ==
    \A i \in 1..Len(us) : \E o \in objects : us[i] = <<"url", o.key>>

\* C13: upload mints a URL for a key only after the write of that key has
\* succeeded: presign requests never outnumber the objects written, every
\* URL held or returned is for a stored key, and an upload whose write fails
\* makes no presign request, adds no URL and makes handler return an
\* envelope without URLs.
C13_UrlOnlyAfterWrite ==
    /\ [](/\ fx.presigns <= Cardinality(objects)
          /\ MintedForStored(urls)
          /\ MintedForStored(result.output_urls))
    /\ [][ (pc = "upload" /\ fx'.puts = fx.puts + 1 /\ objects' = objects)
             => /\ fx'.presigns = fx.presigns
                /\ urls' = urls
                /\ pc' = "idle"
                /\ result'.kind = "envelope"
                /\ "output_urls" \notin result'.keys ]_vars

C13_Witness ==
    /\ pc = "idle"
    /\ fx.puts = 2
    /\ fx.presigns = 1
    /\ Cardinality(objects) = 1
    /\ Len(urls) = 1
    /\ result.error[1] = "put_object failed"

\* C15 (as stated): a run that returns, returns a non-empty artifact sequence.
C15_NeverReturnsEmpty ==
    runResult.kind = "returned" => runResult.images # <<>>

\* C15 (amended): once execute_workflow has been left it has either returned
\* an artifact sequence or raised an exception; the returned sequence is
\* empty exactly when the history record holds no image entry, and a run
\* that raised hands on no artifact.
C15_ReturnsOrRaises ==
    /\ (fx.submits >= 1 /\ pc \in {"idle", "storage", "upload"})
          => runResult.kind \in {"returned", "raised"}
    /\ runResult.kind = "returned"
          => /\ runResult.exc = NoExc
             /\ fx.history = 1
             /\ (runResult.images = <<>>) <=> (EntryCount = 0)
    /\ runResult.kind = "raised"
          => /\ runResult.exc.type # "None"
             /\ runResult.images = <<>>

C15_Witness ==
    /\ runResult.kind = "returned"
    /\ runResult.images = <<>>
    /\ EntryCount = 0
    /\ fx.submits = 1 /\ fx.opens = 1 /\ fx.closes = 1

\* C16: when handler has returned the success envelope, every output image
\* is in the store, the i-th (from 0) under outputs/{job_id}/{workflow_type}_{i},
\* nothing else was written, output_urls has one entry per image with the
\* i-th URL minted for the i-th key, and the envelope carries the job's
\* workflow_type and id.
C16_SuccessEnvelope ==
    result.status = "success"
        => LET n == Len(output_images) IN
           /\ n >= 1
           /\ n = EntryCount
           /\ Cardinality(objects) = n
           /\ Len(result.output_urls) = n
           /\ \A i \in 1..n :
                 /\ [key  |-> <<"outputs", jobNo, job.workflow_type, i - 1>>,
                     body |-> output_images[i]] \in objects
                 /\ result.output_urls[i] =
                        <<"url", <<"outputs", jobNo, job.workflow_type, i - 1>> >>
           /\ result.keys = {"status", "output_urls", "workflow_type", "job_id"}
           /\ result.workflow_type = job.workflow_type
           /\ result.job_id = jobNo

C16_Witness ==
    /\ result.status = "success"
    /\ Len(output_images) = 2
    /\ fx.puts = 2 /\ fx.presigns = 2
    /\ jobNo = 2

\* C18: within one job the prompt is queued at most once and the stream is
\* opened at most once; a run that raised, be it for a failed ws.recv() or
\* an execution_error, has handed control back to handler, which returns
\* without queueing or connecting again.
C18_NothingRetried ==
    /\ [](/\ fx.submits <= 1
          /\ fx.opens <= 1
          /\ runResult.kind = "raised" => pc = "idle")
    /\ [][ (runResult.kind = "raised" /\ jobNo' = jobNo)
             => (fx'.submits = fx.submits /\ fx'.opens = fx.opens) ]_vars

C18_Witness ==
    /\ pc = "idle"
    /\ runResult.exc.type = "WebSocketConnectionClosedException"
    /\ fx.submits = 1 /\ fx.opens = 1
    /\ rcvd >= 1

\* C19: when POST /prompt was answered with a non-success status, the run
\* has raised and handler has returned an error envelope: no stream was
\* opened, no history fetched, no image retrieved, nothing put or presigned.
C19_SubmissionFailureStops ==
    (fx.submits >= 1 /\ prompt_id = NoId)
        => /\ pc = "idle"
           /\ runResult.kind = "raised"
           /\ result.kind = "envelope" /\ "error" \in result.keys
           /\ ~wsOpen
           /\ fx.opens = 0 /\ fx.history = 0 /\ fx.views = 0
           /\ fx.puts = 0 /\ fx.presigns = 0
           /\ objects = {} /\ output_images = <<>>

C19_Witness ==
    /\ fx.submits = 1
    /\ prompt_id = NoId
    /\ pc = "idle"
    /\ runResult.exc.type = "HTTPError"

\* C20: a run that returned, returned one artifact per image entry of the
\* history record, the entries of the first node in list order followed by
\* those of the second, each retrieved once; a run that raised, on the
\* history fetch or on a retrieval, hands no artifact to handler.
C20_OneArtifactPerEntry ==
    /\ runResult.kind = "returned"
          => /\ Len(runResult.images) = Len(outputs[1]) + Len(outputs[2])
             /\ \A j \in 1..Len(outputs[1]) :
                   runResult.images[j] = <<"bytes", outputs[1][j]>>
             /\ \A j \in 1..Len(outputs[2]) :
                   runResult.images[Len(outputs[1]) + j] = <<"bytes", outputs[2][j]>>
             /\ fx.views = Len(runResult.images)
    /\ runResult.kind = "raised"
          => /\ runResult.images = <<>>
             /\ output_images = <<>>
             /\ result.output_urls = <<>>

C20_Witness ==
    /\ runResult.kind = "returned"
    /\ Len(outputs[1]) = 1 /\ Len(outputs[2]) = 1
    /\ Len(runResult.images) = 2

\* C14: wait_for_ready ends by returning, never by raising, whatever the
\* probes came to; it returns False only once the timeout has elapsed.
C14_ReadyNeverRaises ==
    ready.pc = "done"
        => /\ ready.kind = "returned"
           /\ ready.exc = NoExc
           /\ ~ready.ret => ready.now - ready.start >= ReadyTimeout

C21_ClientIdGeneratedOnce ==
    [][client_id # NoId => client_id' = client_id]_vars

\* a terminal event of this job's prompt
MatchingError(f) == f.type = "execution_error" /\ f.prompt_id = prompt_id
MatchingCompletion(f) == f.type = "executing" /\ f.prompt_id = prompt_id /\ f.node = None

\* C22: the first terminal event of this job's prompt that ws.recv() returns
\* decides the run and is the last frame received: after a matching
\* execution_error the run has raised the RuntimeError without fetching the
\* history, whatever follows on the stream; after a matching completion the
\* run has gone on to the history fetch and fails, if at all, on a retrieval.
C22_FirstTerminalDecides ==
    \A k \in 1..rcvd :
        /\ MatchingError(stream[k])
              => /\ rcvd = k
                 /\ pc = "idle"
                 /\ runResult.kind = "raised"
                 /\ runResult.exc.type = "RuntimeError"
                 /\ fx.history = 0
        /\ MatchingCompletion(stream[k])
              => /\ rcvd = k
                 /\ pc \notin {"loop", "recv"}
                 /\ pc = "history" \/ fx.history = 1
                 /\ runResult.kind = "raised" => runResult.exc.type = "HTTPError"

C22_Witness ==
    /\ Len(stream) = 2
    /\ MatchingError(stream[1])
    /\ MatchingCompletion(stream[2])
    /\ rcvd = 1
    /\ runResult.kind = "raised"

\* the reverse order: completion first, the error event never received
C22_WitnessReversed ==
    /\ Len(stream) = 2
    /\ MatchingCompletion(stream[1])
    /\ MatchingError(stream[2])
    /\ rcvd = 1
    /\ runResult.kind = "returned"

\* C23: an envelope never has both an error and output_urls; when the k-th
\* upload of a job has failed, handler has returned an envelope with the
\* error alone, and the k-1 objects written before it are still in the store
\* under their keys.
C23_UploadFailureEnvelope ==
    /\ ~("error" \in result.keys /\ "output_urls" \in result.keys)
    /\ (pc = "idle" /\ fx.puts >= 1 /\ "error" \in result.keys)
          => /\ result.kind = "envelope"
             /\ result.keys = {"error"}
             /\ result.output_urls = <<>>
             /\ fx.puts <= Len(output_images)
             /\ \A i \in 1..(fx.puts - 1) :
                   [key  |-> <<"outputs", jobNo, job.workflow_type, i - 1>>,
                    body |-> output_images[i]] \in objects

C23_Witness ==
    /\ pc = "idle"
    /\ result.keys = {"error"}
    /\ Len(output_images) = 2
    /\ fx.puts = 2
    /\ [key |-> <<"outputs", jobNo, job.workflow_type, 0>>, body |-> output_images[1]] \in objects

====
